---- MODULE Spec2Model ----
(***************************************************************************)
(* Model of the mst_gis pipeline core:                                     *)
(*   - ConfigManager (pipeline/config.py) with validate_config             *)
(*     (utils/validation.py): the configuration store, its deep merge,     *)
(*     its setter, its save/load;                                          *)
(*   - the batch processor (propagation/batch_processor.py) with the       *)
(*     feature builders of gis/geojson_builder.py.                         *)
(*                                                                         *)
(* Python values.  Numbers are fixed-point integers in units of 10^-5      *)
(* (0.03 is 3000, 6 is 600000, -13.40694 is -1340694), so that the         *)
(* comparisons of validate_config are exact.  A dict is a sequence of      *)
(* <<key, value>> pairs with unique keys, in insertion order, as Python    *)
(* keeps it.  A key is a string or an integer: the two kinds are distinct  *)
(* keys even when they print alike (100 and "100").                        *)
(***************************************************************************)
EXTENDS Integers, Sequences, FiniteSets, TLC

\* ---------------------------------------------------------------- values

\* A str key and an int key; `name` is the key's text (str(k) for an int).
K(s) == [kind |-> "str", name |-> s]
I(s) == [kind |-> "int", name |-> s]

\* A float/int, a str, a dict held by value, a reference to one of the
\* nested dicts of DEFAULT_CONFIG (shared by identity), and None.
Num(x) == [t |-> "num", n |-> x, s |-> "", m |-> <<>>]
Str(x) == [t |-> "str", n |-> 0, s |-> x, m |-> <<>>]
Map(q) == [t |-> "map", n |-> 0, s |-> "", m |-> q]
Ref(i) == [t |-> "ref", n |-> i, s |-> "", m |-> <<>>]
NoneV == [t |-> "none", n |-> 0, s |-> "", m |-> <<>>]

\* dict operations: `k in d`, d[k], d[k] = v (an existing key keeps its
\* place, a new key is appended), list(d.keys()).
Has(d, k) == \E i \in 1..Len(d) : d[i][1] = k
Idx(d, k) == CHOOSE i \in 1..Len(d) : d[i][1] = k
Get(d, k) == d[Idx(d, k)][2]
Put(d, k, v) == IF Has(d, k) THEN [d EXCEPT ![Idx(d, k)] = <<k, v>>] ELSE Append(d, <<k, v>>)
Keys(d) == {d[i][1] : i \in 1..Len(d)}

\* [x for x in xs if not P(x)] for the `missing` lists of validate_config.
RECURSIVE MissingFrom(_, _)
MissingFrom(required, d) ==
  IF required = <<>> THEN <<>>
  ELSE IF Has(d, Head(required)) THEN MissingFrom(Tail(required), d)
       ELSE <<Head(required)>> \o MissingFrom(Tail(required), d)

\* ------------------------------------------------------- DEFAULT_CONFIG

\* The six nested dicts of DEFAULT_CONFIG, as objects 1..6.
TRANSMITTER == 1
P1812 == 2
RECEIVER_GENERATION == 3
SENTINEL_HUB == 4
LCM10_TO_CT == 5
CT_TO_R == 6

\* The contents of the nested dicts when the module is imported.
DefaultSections ==
  << \* TRANSMITTER
     << <<K("tx_id"), Str("TX_0001")>>, <<K("longitude"), Num(-1340694)>>,
        <<K("latitude"), Num(934500)>>, <<K("antenna_height_tx"), Num(5700000)>>,
        <<K("antenna_height_rx"), Num(1000000)>> >>,
     \* P1812
     << <<K("frequency_ghz"), Num(90000)>>, <<K("time_percentage"), Num(5000000)>>,
        <<K("polarization"), Num(100000)>> >>,
     \* RECEIVER_GENERATION
     << <<K("max_distance_km"), Num(1100000)>>, <<K("azimuth_step"), Num(1000000)>>,
        <<K("distance_step"), Num(3000)>>, <<K("sampling_resolution"), Num(3000000)>> >>,
     \* SENTINEL_HUB
     << <<K("buffer_m"), Num(1100000000)>>, <<K("chip_px"), Num(73400000)>>,
        <<K("year"), Num(202000000)>> >>,
     \* LCM10_TO_CT
     << <<I("100"), Num(100000)>>, <<I("80"), Num(200000)>>, <<I("30"), Num(200000)>>,
        <<I("40"), Num(200000)>>, <<I("70"), Num(200000)>>, <<I("110"), Num(200000)>>,
        <<I("254"), Num(200000)>>, <<I("20"), Num(300000)>>, <<I("50"), Num(300000)>>,
        <<I("10"), Num(400000)>>, <<I("60"), Num(400000)>>, <<I("90"), Num(400000)>> >>,
     \* CT_TO_R
     << <<I("1"), Num(0)>>, <<I("2"), Num(0)>>, <<I("3"), Num(1000000)>>,
        <<I("4"), Num(1500000)>>, <<I("5"), Num(2000000)>> >> >>

\* The top-level dict of DEFAULT_CONFIG: section name -> nested dict object.
\* DEFAULT_CONFIG.copy() copies this level only.
DEFAULT_CONFIG ==
  << <<K("TRANSMITTER"), Ref(TRANSMITTER)>>, <<K("P1812"), Ref(P1812)>>,
     <<K("RECEIVER_GENERATION"), Ref(RECEIVER_GENERATION)>>,
     <<K("SENTINEL_HUB"), Ref(SENTINEL_HUB)>>,
     <<K("LCM10_TO_CT"), Ref(LCM10_TO_CT)>>, <<K("CT_TO_R"), Ref(CT_TO_R)>> >>

\* ------------------------------------------------------ validate_config

\* What a value denotes when it is used as a mapping.
IsDict(v) == v.t \in {"ref", "map"}
Resolve(v, shared) == IF v.t = "ref" THEN shared[v.n] ELSE v.m

required_sections ==
  <<K("TRANSMITTER"), K("P1812"), K("RECEIVER_GENERATION"), K("LCM10_TO_CT"), K("CT_TO_R")>>
required_tx_keys ==
  <<K("latitude"), K("longitude"), K("antenna_height_tx"), K("antenna_height_rx")>>
required_p1812 == <<K("frequency_ghz"), K("time_percentage"), K("polarization")>>

\* The outcome of a call: exc is "" for a normal return, else the exception
\* type; what/names/val are the parts of the exception's message.
Returned == [exc |-> "", what |-> "", names |-> <<>>, val |-> NoneV]
Raised(e, w, ns, v) == [exc |-> e, what |-> w, names |-> ns, val |-> v]
\* An exception of the interpreter, not of this package (`key in 5`,
\* `0.03 <= "x"`, `5[key] = v`).
TypeError == Raised("TypeError", "", <<>>, NoneV)

\* 0.03 <= x <= 6 and 1 <= x <= 50 raise TypeError unless x is a number.
\* (FrequencyInRange_exclusive: the range without its bounds, for comparison.)
FrequencyInRange_exclusive(x) == 3000 < x.n /\ x.n < 600000
FrequencyInRange(x) == 3000 <= x.n /\ x.n <= 600000
TimeInRange(x) == 100000 <= x.n /\ x.n <= 5000000
PolarizationOk(x) == x.t = "num" /\ x.n \in {100000, 200000}

\* validate_config(config): config is the top-level dict of a store, whose
\* nested dicts are reached through `shared`.  Section values are dicts or
\* numbers here; `key not in <number>` raises TypeError.
validate_config(config, shared) ==
  LET missing == MissingFrom(required_sections, config) IN
  IF missing # <<>> THEN Raised("ValidationError", "Missing CONFIG sections", missing, NoneV)
  ELSE
  LET tx == Get(config, K("TRANSMITTER")) IN
  IF ~IsDict(tx) THEN TypeError
  ELSE
  LET missing_tx == MissingFrom(required_tx_keys, Resolve(tx, shared)) IN
  IF missing_tx # <<>> THEN Raised("ValidationError", "Missing TRANSMITTER keys", missing_tx, NoneV)
  ELSE
  LET p1812v == Get(config, K("P1812")) IN
  IF ~IsDict(p1812v) THEN TypeError
  ELSE
  LET p1812 == Resolve(p1812v, shared)
      missing_p1812 == MissingFrom(required_p1812, p1812) IN
  IF missing_p1812 # <<>> THEN Raised("ValidationError", "Missing P1812 keys", missing_p1812, NoneV)
  ELSE
  LET f == Get(p1812, K("frequency_ghz"))
      p == Get(p1812, K("time_percentage"))
      pol == Get(p1812, K("polarization")) IN
  IF f.t # "num" THEN TypeError
  ELSE IF ~FrequencyInRange(f) THEN Raised("ValidationError", "Frequency outside valid range [0.03, 6]", <<>>, f)
  ELSE IF p.t # "num" THEN TypeError
  ELSE IF ~TimeInRange(p) THEN Raised("ValidationError", "Time percentage outside valid range [1, 50]", <<>>, p)
  ELSE IF ~PolarizationOk(pol) THEN Raised("ValidationError", "Polarization must be 1 (H) or 2 (V)", <<>>, pol)
  ELSE Returned

\* -------------------------------------------------------- ConfigManager

\* ConfigManager.validate: a ValidationError becomes a ConfigError with the
\* same message; anything else propagates as it is.
validate(config, shared) ==
  LET r == validate_config(config, shared) IN
  IF r.exc = "ValidationError" THEN [r EXCEPT !.exc = "ConfigError"] ELSE r

\* ConfigManager._deep_update(target, source).  deep_update works on the
\* dict d that target denotes; deep_update_value is the recursive call
\* self._deep_update(target[key], value), whose target may be a shared
\* nested dict of DEFAULT_CONFIG, a dict held by the store alone, or a leaf
\* (on which `key in target` or `target[key] = value` raises TypeError as
\* soon as the source has one item).  The loop stops at the first
\* exception and keeps what it has written so far.
RECURSIVE deep_update(_, _, _), deep_update_value(_, _, _)
deep_update_value(tv, shared, source) ==
  IF tv.t = "ref"
  THEN LET r == deep_update(shared[tv.n], shared, source) IN
       [v |-> tv, shared |-> [r.shared EXCEPT ![tv.n] = r.d], exc |-> r.exc]
  ELSE IF tv.t = "map"
  THEN LET r == deep_update(tv.m, shared, source) IN
       [v |-> Map(r.d), shared |-> r.shared, exc |-> r.exc]
  ELSE [v |-> tv, shared |-> shared, exc |-> IF source = <<>> THEN "" ELSE "TypeError"]

deep_update(d, shared, source) ==
  IF source = <<>> THEN [d |-> d, shared |-> shared, exc |-> ""]
  ELSE LET key == Head(source)[1]
           value == Head(source)[2] IN
       IF value.t = "map" /\ Has(d, key)
       THEN LET r == deep_update_value(Get(d, key), shared, value.m) IN
            IF r.exc # "" THEN [d |-> Put(d, key, r.v), shared |-> r.shared, exc |-> r.exc]
            ELSE deep_update(Put(d, key, r.v), r.shared, Tail(source))
       ELSE deep_update(Put(d, key, value), shared, Tail(source))

\* ConfigManager.__init__(config): the store's dict and the nested dicts
\* after the call, and how the call ended.  config is None or a dict.
ConfigManager_init(config, shared) ==
  LET copy == DEFAULT_CONFIG
      u == IF config.t = "map" /\ config.m # <<>>
           THEN deep_update(copy, shared, config.m)
           ELSE [d |-> copy, shared |-> shared, exc |-> ""] IN
  IF u.exc # "" THEN [config |-> u.d, shared |-> u.shared, out |-> TypeError]
  ELSE [config |-> u.d, shared |-> u.shared, out |-> validate(u.d, u.shared)]

\* ConfigManager.get(section, key, default=None).
ConfigManager_get(config, shared, section, key) ==
  IF key = NoneV THEN (IF Has(config, section) THEN Get(config, section) ELSE NoneV)
  ELSE LET section_data == IF Has(config, section) THEN Get(config, section) ELSE Map(<<>>) IN
       IF IsDict(section_data)
       THEN (IF Has(Resolve(section_data, shared), key)
             THEN Get(Resolve(section_data, shared), key) ELSE NoneV)
       ELSE NoneV

\* d[section][key] = value on the store's dict: the item assignment goes to
\* the nested dict itself, which for a default section is the shared one.
SetItem(config, shared, section, key, value) ==
  LET sv == Get(config, section) IN
  IF sv.t = "ref" THEN [config |-> config, shared |-> [shared EXCEPT ![sv.n] = Put(@, key, value)], exc |-> ""]
  ELSE IF sv.t = "map" THEN [config |-> Put(config, section, Map(Put(sv.m, key, value))), shared |-> shared, exc |-> ""]
  ELSE [config |-> config, shared |-> shared, exc |-> "TypeError"]

\* ConfigManager.set(section, key, value).
ConfigManager_set(config, shared, section, key, value) ==
  LET c1 == IF Has(config, section) THEN config ELSE Put(config, section, Map(<<>>))
      w == SetItem(c1, shared, section, key, value) IN
  IF w.exc # "" THEN [config |-> w.config, shared |-> w.shared, out |-> TypeError]
  ELSE [config |-> w.config, shared |-> w.shared, out |-> validate(w.config, w.shared)]

\* ConfigManager.to_dict(): a copy of the top level; the nested dicts of
\* the copy are the store's own.
to_dict(config) == config

\* The tree a reader sees through a store (get, to_dict, json.dumps): the
\* set of <<path, leaf>>, with <<path, {}>> marking each nested dict.
RECURSIVE Flat(_, _, _)
Flat(d, shared, prefix) ==
  UNION { LET path == Append(prefix, d[i][1])
              v == d[i][2] IN
          IF IsDict(v) THEN {<<path, Map(<<>>)>>} \cup Flat(Resolve(v, shared), shared, path)
          ELSE {<<path, v>>} : i \in 1..Len(d) }

\* ------------------------------------------------------ to_file / from_file

\* The dict with every nested dict written out, as a serializer walks it.
RECURSIVE Deep(_, _)
Deep(d, shared) ==
  [i \in 1..Len(d) |->
     IF IsDict(d[i][2]) THEN <<d[i][1], Map(Deep(Resolve(d[i][2], shared), shared))>>
     ELSE d[i]]

\* json.dump: every key is written as a string (an int key n as str(n)); the
\* items are written in order, so two keys that print alike are both written.
RECURSIVE json_dump(_)
json_dump(d) ==
  [i \in 1..Len(d) |->
     <<K(d[i][1].name), IF d[i][2].t = "map" THEN Map(json_dump(d[i][2].m)) ELSE d[i][2]>>]

\* json.load: the object's members are stored in order, a repeated name
\* overwriting the earlier one.
RECURSIVE json_load_from(_, _)
json_load_from(doc, acc) ==
  IF doc = <<>> THEN acc
  ELSE LET k == Head(doc)[1]
           v == Head(doc)[2] IN
       json_load_from(Tail(doc),
                      Put(acc, k, IF v.t = "map" THEN Map(json_load_from(v.m, <<>>)) ELSE v))
json_load(doc) == json_load_from(doc, <<>>)

\* yaml.dump / yaml.safe_load keep int keys as ints and str keys as strs.
yaml_dump(d) == d

\* ConfigManager.to_file(path, format): what the file holds afterwards.  The
\* format is the caller's argument (default 'json'), whatever the path's suffix.
to_file(config, shared, format) ==
  IF format = "json" THEN [format |-> "json", data |-> json_dump(Deep(config, shared)), exc |-> ""]
  ELSE IF format = "yaml" THEN [format |-> "yaml", data |-> yaml_dump(Deep(config, shared)), exc |-> ""]
  ELSE [format |-> "", data |-> <<>>, exc |-> "ValueError"]

\* The parser from_file picks from the suffix, applied to the file's text.
\* JSON text is also YAML (flow style), so yaml.safe_load reads it, with the
\* string keys it holds; YAML block text is not JSON.
Parse(suffix, text) ==
  IF suffix = ".json"
  THEN (IF text.format = "json" THEN [exc |-> "", config |-> Map(json_load(text.data))]
        ELSE [exc |-> "JSONDecodeError", config |-> NoneV])
  ELSE IF suffix \in {".yaml", ".yml"}
  THEN [exc |-> "", config |-> Map(IF text.format = "json" THEN json_load(text.data) ELSE text.data)]
  ELSE [exc |-> "ConfigError", config |-> NoneV]

\* ConfigManager.from_file(path): exists says whether the path is a file.
from_file(exists, suffix, text, shared) ==
  IF ~exists THEN [config |-> <<>>, shared |-> shared,
                   out |-> Raised("ConfigError", "Config file not found", <<>>, NoneV)]
  ELSE LET p == Parse(suffix, text) IN
       IF p.exc = "ConfigError"
       THEN [config |-> <<>>, shared |-> shared,
             out |-> Raised("ConfigError", "Unsupported file format", <<>>, NoneV)]
       ELSE IF p.exc # ""
       THEN [config |-> <<>>, shared |-> shared, out |-> Raised(p.exc, "", <<>>, NoneV)]
       ELSE ConfigManager_init(p.config, shared)

\* ------------------------------------------------- the configuration process

VARIABLES
  shared,   \* the nested dicts of DEFAULT_CONFIG, by object: process-wide state
  stores,   \* the ConfigManager instances that were constructed: their self.config
  file,     \* the configuration file on disk, if one was written
  last,     \* the last call: what it was given and how it ended
  steps,    \* calls made so far
  lastSet   \* per store, (section, key) -> value of its most recent set that returned
cvars == <<shared, stores, file, last, steps, lastSet>>

VARIABLES
  vconfig,  \* the CONFIG dictionary handed to validate_config
  vout      \* how the call ended, once it was made
vvars == <<vconfig, vout>>

VARIABLES
  available,      \* whether `import Py1812.P1812` succeeds in this environment
  shape,          \* what process_loss_parameters returns: the list, or (list, tx_id)
  dir,            \* the profiles in the input directory, in the loader's order
  pc,             \* where main() is
  exc,            \* the exception main() raised, "" while none
  dirCreated,     \* output_dir.mkdir was called
  profiles,       \* main's local `profiles`
  index,          \* main's loop index (0-based)
  parameters,     \* main's local `parameters`
  loss,           \* main's locals Lb, Ep
  points,         \* main's local `points`
  lines,          \* main's local `lines`
  polygon_coords, \* main's local `polygon_coords`
  polygon_fc,     \* main's local `polygon_fc`
  max_d_km,       \* main's local `max_d_km`
  ts,             \* main's local `ts`
  written,        \* the files this run wrote, in order: name and content
  prev,           \* the previous run of main(), once a second run has started
  calls           \* the calls main() made to its collaborators, in order
bvars == <<available, shape, dir, pc, exc, dirCreated, profiles, index, parameters, loss,
           points, lines, polygon_coords, polygon_fc, max_d_km, ts, written, prev, calls>>

VARIABLES
  fn,       \* the geojson_builder function under call
  arg,      \* the list object passed as its first argument, as it is now
  arg0,     \* that list as it was when first passed
  rest,     \* the other arguments (number or index, Lb, Ep)
  results   \* what the calls made so far returned, in order
gvars == <<fn, arg, arg0, rest, results>>

VARIABLES
  gen_in,   \* lat0, lon0, num_points, scale handed to generate_phyllotaxis
  gen_out   \* what the calls made so far returned, in order
pvars == <<gen_in, gen_out>>

vars == <<cvars, vvars, bvars, gvars, pvars>>

\* Bounds of the exploration.
MaxStores == 2
MaxSteps == 4

\* The inputs of the calls.  Overrides given to ConfigManager(config):
\*   a frequency out of range, a valid polarization, a valid frequency on the
\*   upper bound, a number in place of a required section, a dict in place of
\*   a leaf, and a section the defaults do not have.
Overrides ==
  { NoneV,
    Map(<< <<K("P1812"), Map(<< <<K("frequency_ghz"), Num(1000000)>> >>)>> >>),
    Map(<< <<K("P1812"), Map(<< <<K("polarization"), Num(200000)>> >>)>> >>),
    Map(<< <<K("P1812"), Map(<< <<K("frequency_ghz"), Num(600000)>> >>)>> >>),
    Map(<< <<K("P1812"), Num(500000)>> >>),
    Map(<< <<K("P1812"), Map(<< <<K("frequency_ghz"), Map(<< <<K("a"), Num(100000)>> >>)>> >>)>> >>),
    Map(<< <<K("EXTRA"), Map(<< <<K("note"), Num(100000)>> >>)>> >>) }
SetTargets ==
  { <<K("P1812"), K("frequency_ghz")>>, <<K("P1812"), K("polarization")>>, <<K("EXTRA"), K("note")>> }
SetValues == { Num(100000), Num(1000000) }
Suffixes == { ".json", ".yaml" }
Formats == { "json", "yaml" }

NoKey == K("")
NoFile == [suffix |-> "", text |-> [format |-> "", data |-> <<>>, exc |-> ""], orig |-> {}, st |-> 0]
Call(op, st, out, sec, key, val, ov) ==
  [op |-> op, st |-> st, out |-> out, sec |-> sec, key |-> key, val |-> val, ov |-> ov]

InitConfig ==
  /\ shared = DefaultSections
  /\ stores = <<>>
  /\ file = NoFile
  /\ last = Call("import", 0, Returned, NoKey, NoKey, NoneV, NoneV)
  /\ steps = 0
  /\ lastSet = <<>>

\* A constructor call that returns adds a store; one that raises leaves no
\* store, but what it wrote to the shared nested dicts stays written.
Constructed(r, op, ov) ==
  /\ shared' = r.shared
  /\ stores' = IF r.out.exc = "" THEN Append(stores, r.config) ELSE stores
  /\ lastSet' = IF r.out.exc = "" THEN Append(lastSet, <<>>) ELSE lastSet
  /\ last' = Call(op, IF r.out.exc = "" THEN Len(stores) + 1 ELSE 0, r.out, NoKey, NoKey, NoneV, ov)
  /\ steps' = steps + 1

\* ConfigManager(config) / ConfigManager.from_defaults().
Construct(config) ==
  /\ steps < MaxSteps /\ Len(stores) < MaxStores
  /\ Constructed(ConfigManager_init(config, shared), "construct", config)
  /\ UNCHANGED <<file, vvars, bvars, gvars, pvars>>

\* stores[i].set(section, key, value).
Set(i, section, key, value) ==
  /\ steps < MaxSteps
  /\ LET r == ConfigManager_set(stores[i], shared, section, key, value) IN
     /\ shared' = r.shared
     /\ stores' = [stores EXCEPT ![i] = r.config]
     /\ lastSet' = IF r.out.exc = "" THEN [lastSet EXCEPT ![i] = Put(@, <<section, key>>, value)]
                   ELSE lastSet
     /\ last' = Call("set", i, r.out, section, key, value, NoneV)
  /\ steps' = steps + 1
  /\ UNCHANGED <<file, vvars, bvars, gvars, pvars>>

\* d = stores[i].to_dict(), then the caller writes to d: d[section] = value
\* changes the copy only, d[section][key] = value writes to the nested dict.
ModifyExported(i, section, key, value) ==
  /\ steps < MaxSteps
  /\ LET d == to_dict(stores[i]) IN
     \/ /\ UNCHANGED <<shared, stores>>
        /\ last' = Call("export-top", i, Returned, section, NoKey, value, NoneV)
     \/ /\ Has(d, section) /\ IsDict(Get(d, section))
        /\ LET w == SetItem(d, shared, section, key, value) IN
           shared' = w.shared /\ stores' = [stores EXCEPT ![i] = w.config]
        /\ last' = Call("export-nested", i, Returned, section, key, value, NoneV)
  /\ steps' = steps + 1
  /\ UNCHANGED <<file, lastSet, vvars, bvars, gvars, pvars>>

\* m = stores[i].get(section), then the caller writes m[key] = value.
ModifyGot(i, section, key, value) ==
  /\ steps < MaxSteps
  /\ IsDict(ConfigManager_get(stores[i], shared, section, NoneV))
  /\ LET w == SetItem(stores[i], shared, section, key, value) IN
     shared' = w.shared /\ stores' = [stores EXCEPT ![i] = w.config]
  /\ last' = Call("get-modify", i, Returned, section, key, value, NoneV)
  /\ steps' = steps + 1
  /\ UNCHANGED <<file, lastSet, vvars, bvars, gvars, pvars>>

\* stores[i].to_file(path, format), for a valid store.
Save(i, suffix, format) ==
  /\ steps < MaxSteps
  /\ validate(stores[i], shared).exc = ""
  /\ file' = [suffix |-> suffix, text |-> to_file(stores[i], shared, format),
              orig |-> Flat(to_dict(stores[i]), shared, <<>>), st |-> i]
  /\ last' = Call("save", i, Returned, NoKey, NoKey, NoneV, NoneV)
  /\ steps' = steps + 1
  /\ UNCHANGED <<shared, stores, lastSet, vvars, bvars, gvars, pvars>>

\* ConfigManager.from_file(path).
Load(suffix) ==
  /\ steps < MaxSteps /\ Len(stores) < MaxStores
  /\ Constructed(from_file(file.suffix = suffix, suffix, file.text, shared), "load", NoneV)
  /\ UNCHANGED <<file, vvars, bvars, gvars, pvars>>

\* Three processes: one that only constructs stores and calls set; one that
\* also saves and loads; one whose callers also write to the mappings that
\* to_dict() and get(section) hand out.
NextStore ==
  \/ \E config \in Overrides : Construct(config)
  \/ \E i \in 1..Len(stores), t \in SetTargets, v \in SetValues : Set(i, t[1], t[2], v)

NextFiles ==
  \/ NextStore
  \/ \E i \in 1..Len(stores), x \in Suffixes, f \in Formats : Save(i, x, f)
  \/ \E x \in Suffixes : Load(x)

NextConfig ==
  \/ NextFiles
  \/ \E i \in 1..Len(stores), t \in SetTargets, v \in SetValues : ModifyExported(i, t[1], t[2], v)
  \/ \E i \in 1..Len(stores), t \in SetTargets, v \in SetValues : ModifyGot(i, t[1], t[2], v)

\* ------------------------------------------- validate_config on given trees

NotRun == Raised("not run", "", <<>>, NoneV)

\* The trees: the defaults with one section, one transmitter key or one
\* model-parameter key left out, and with values on, next to and far from
\* the bounds of the three ranges, or of another type; and the defaults with
\* a number in place of a required section.
Without(d, k) == SelectSeq(d, LAMBDA e : e[1] # k)
SectionDrops == {NoKey, K("P1812"), K("CT_TO_R"), K("SENTINEL_HUB")}
TxDrops == {NoKey, K("latitude"), K("antenna_height_rx"), K("tx_id")}
P1812Drops == {NoKey, K("frequency_ghz"), K("polarization")}
FrequencyInputs ==
  {Num(2999), Num(3000), Num(90000), Num(600000), Num(600001), Num(1000000), Str("0.9")}
TimeInputs == {Num(99999), Num(100000), Num(5000000), Num(5000001)}
PolarizationInputs == {Num(100000), Num(200000), Num(300000), Str("1")}
ConfigTree(ds, dt, dp, f, p, pol) ==
  Without(
    << <<K("TRANSMITTER"), Map(Without(DefaultSections[TRANSMITTER], dt))>>,
       <<K("P1812"),
         Map(Without(<< <<K("frequency_ghz"), f>>, <<K("time_percentage"), p>>,
                        <<K("polarization"), pol>> >>, dp))>>,
       <<K("RECEIVER_GENERATION"), Ref(RECEIVER_GENERATION)>>,
       <<K("SENTINEL_HUB"), Ref(SENTINEL_HUB)>>,
       <<K("LCM10_TO_CT"), Ref(LCM10_TO_CT)>>, <<K("CT_TO_R"), Ref(CT_TO_R)>> >>,
    ds)
ConfigTrees ==
  { ConfigTree(ds, dt, dp, f, p, pol) :
      ds \in SectionDrops, dt \in TxDrops, dp \in P1812Drops,
      f \in FrequencyInputs, p \in TimeInputs, pol \in PolarizationInputs }
  \cup { Put(DEFAULT_CONFIG, K("P1812"), Num(500000)),
         Put(DEFAULT_CONFIG, K("TRANSMITTER"), Num(500000)) }

InitValidate == vconfig \in ConfigTrees /\ vout = NotRun
ValidateIdle == vconfig = <<>> /\ vout = NotRun

\* validate_config(vconfig).
Validate ==
  /\ vout = NotRun
  /\ vout' = validate_config(vconfig, DefaultSections)
  /\ UNCHANGED <<vconfig, cvars, bvars, gvars, pvars>>

NextValidate == Validate

\* ------------------------------------------------------- geojson_builder

\* parameters[k] and q[-1] of Python; k is in range when k < len(parameters).
Item(q, k) == q[k + 1]
Last(q) == q[Len(q)]
CanIndex(q, k) == k < Len(q)

\* A feature name: the text and, for the numbered ones, the number.
generate_geojson_point_transmitter(params) ==
  LET tx_lon == Item(params, 12)
      tx_lat == Item(params, 10) IN
  [geometry |-> [type |-> "Point", coordinates |-> <<tx_lon, tx_lat>>],
   properties |-> [name |-> <<"Transmitter">>, frequency |-> Item(params, 0),
                   htg |-> Item(params, 7), polarization |-> Item(params, 9),
                   lon |-> tx_lon, lat |-> tx_lat]]

generate_geojson_point_receiver(params, number, Lb, Ep) ==
  LET rx_lon == Item(params, 13)
      rx_lat == Item(params, 11) IN
  [geometry |-> [type |-> "Point", coordinates |-> <<rx_lon, rx_lat>>],
   properties |-> [name |-> <<"Receiver_", number>>, Lb |-> Lb, Ep |-> Ep,
                   hrg |-> Item(params, 8), distance |-> Last(Item(params, 2)),
                   lon |-> rx_lon, lat |-> rx_lat]]

\* f"Link_{index+1}" and "rx_id": index+1.
\* (LinkNumber_zero_based: the index as it is passed, for comparison.)
LinkNumber_zero_based(idx) == idx
LinkNumber(idx) == idx + 1
generate_geojson_line(params, idx, Lb, Ep) ==
  LET tx_lon == Item(params, 12)
      tx_lat == Item(params, 10)
      rx_lon == Item(params, 13)
      rx_lat == Item(params, 11) IN
  [geometry |-> [type |-> "LineString",
                 coordinates |-> << <<tx_lon, tx_lat>>, <<rx_lon, rx_lat>> >>],
   properties |-> [name |-> <<"Link_", LinkNumber(idx)>>, rx_id |-> LinkNumber(idx),
                   tx_lon |-> tx_lon, tx_lat |-> tx_lat, rx_lon |-> rx_lon, rx_lat |-> rx_lat,
                   distance_km |-> Last(Item(params, 2)), Lb |-> Lb, Ep |-> Ep]]

FeatureCollection(features) == [type |-> "FeatureCollection", features |-> features]

\* generate_geojson_polygon(polygon_coords): the collection it returns and
\* the caller's list after the call (the closing vertex is appended to the
\* list that was passed, and the polygon's ring is that list).
\* (NeedsClosing_always: a closing vertex for every non-empty list, for
\* comparison.)
NeedsClosing_always(coords) == coords # <<>>
\* (NeedsClosing_never: no closing vertex at all, for comparison.)
NeedsClosing_never(coords) == FALSE
NeedsClosing(coords) == coords # <<>> /\ coords[1] # Last(coords)
\* (generate_geojson_polygon_skips_empty: no feature at all for an empty
\* list, for comparison.)
generate_geojson_polygon_skips_empty(coords) ==
  LET closed == IF NeedsClosing(coords) THEN Append(coords, coords[1]) ELSE coords IN
  [fc |-> FeatureCollection(
            IF coords = <<>> THEN <<>>
            ELSE << [geometry |-> [type |-> "Polygon", coordinates |-> <<closed>>],
                     properties |-> [name |-> <<"Coverage area">>]] >>),
   polygon_coords |-> closed]
generate_geojson_polygon(coords) ==
  LET closed == IF NeedsClosing(coords) THEN Append(coords, coords[1]) ELSE coords IN
  [fc |-> FeatureCollection(
            << [geometry |-> [type |-> "Polygon",
                              coordinates |-> IF closed # <<>> THEN <<closed>> ELSE << <<>> >>],
                properties |-> [name |-> <<"Coverage area">>]] >>),
   polygon_coords |-> closed]

\* ------------------------------------------------------- batch_processor

\* Bound of the exploration: profiles in the input directory.
MaxProfiles == 3

\* A profile: the row of the input file that process_loss_parameters turns
\* into the positional arguments of bt_loss.  Coordinates are whole degrees,
\* distances hundredths of a km; one transmitter, receivers at three places,
\* two of the profiles ending at the same place.
Profile(lam_r, phi_r, d_last) ==
  [f |-> 9, p |-> 50, d |-> <<0, d_last>>, h |-> <<0, 0>>, R |-> <<0, 0>>, Ct |-> <<2, 2>>,
   zone |-> <<4, 4>>, htg |-> 57, hrg |-> 10, pol |-> 1,
   phi_t |-> 9, phi_r |-> phi_r, lam_t |-> -13, lam_r |-> lam_r, tx_id |-> "TX_0001"]
ProfilePool == {Profile(1, 1, 200), Profile(2, 1, 500), Profile(2, 2, 300), Profile(1, 1, 225)}
Injective(q) == \A i, j \in DOMAIN q : q[i] = q[j] => i = j
ProfileSeqs ==
  {q \in UNION {[1..n -> ProfilePool] : n \in 0..MaxProfiles} : Injective(q)}
Reorderings(q) ==
  {[i \in 1..Len(q) |-> q[f[i]]] : f \in {g \in [1..Len(q) -> 1..Len(q)] : Injective(g)}}
LossResults == {<<120, 40>>, <<140, 20>>}

\* profile_parser.load_profiles(profiles_dir): the profiles of the directory
\* in a stable order.
load_profiles(d) == d

\* profile_parser.process_loss_parameters(profile): the argument list of
\* bt_loss at the offsets the feature builders read (d at 2, htg at 7, hrg
\* at 8, pol at 9, phi_t, phi_r, lam_t, lam_r at 10..13).  batch_processor
\* uses the value as that list; the test script unpacks it as
\* (list, tx_id).  `shape` says which of the two the function returns.
ParameterList(pr) ==
  <<pr.f, pr.p, pr.d, pr.h, pr.R, pr.Ct, pr.zone, pr.htg, pr.hrg, pr.pol,
    pr.phi_t, pr.phi_r, pr.lam_t, pr.lam_r>>
process_loss_parameters(pr, sh) ==
  IF sh = "list" THEN ParameterList(pr) ELSE <<ParameterList(pr), pr.tx_id>>

\* `if index == 0:` of the loop.
\* (IsFirst_always: a transmitter for every profile, for comparison.)
IsFirst_always(idx) == TRUE
IsFirst(idx) == idx = 0

\* max(max_d_km, float(p[2][-1])) over the profiles, from 0.0.
\* (Max_keep_first: the running value never replaced, for comparison.)
Max_keep_first(a, b) == a
Max(a, b) == IF a >= b THEN a ELSE b
RECURSIVE MaxDistance(_, _, _)
MaxDistance(ps, sh, acc) ==
  IF ps = <<>> THEN acc
  ELSE MaxDistance(Tail(ps), sh, Max(acc, Last(Item(process_loss_parameters(Head(ps), sh), 2))))

\* f"{max_d_km:.1f}".replace(".", "p") + "km", for a distance in hundredths:
\* the whole part, "p", the tenths digit after rounding to one decimal,
\* "km".  The format rounds the binary value: a tie is a real tie, and goes
\* to the even digit, when the hundredths are a multiple of 25 (2.25 gives
\* 2.2, 2.75 gives 2.8); the profiles' distances have no other x5 ending.
Tenths(x) ==
  LET q == x \div 10
      r == x % 10 IN
  IF r > 5 \/ (r = 5 /\ q % 2 = 1) THEN q + 1 ELSE q
d_tag(x) == <<Tenths(x) \div 10, "p", Tenths(x) % 10, "km">>

\* One step of main() on the k-th profile: a call of
\* process_loss_parameters or of bt_loss, or the features of the profile
\* being appended; `loop` is 1 for the processing loop, 2 for the
\* max-distance loop.
Step(op, k, profile, loop) == [op |-> op, k |-> k, profile |-> profile, loop |-> loop]
\* The calls of the max-distance loop up to its j-th profile.
SecondLoop(ps, j) == [k \in 1..j |-> Step("process_loss_parameters", k, ps[k], 2)]

NoParameters == <<>>
NoLoss == <<0, 0>>
NoCollection == [type |-> "", features |-> <<>>]
NoRun == [ran |-> FALSE, profiles |-> <<>>, ring |-> <<>>]

\* The locals of main() before it runs.
Fresh ==
  /\ pc = "import" /\ exc = "" /\ dirCreated = FALSE
  /\ profiles = <<>> /\ index = 0 /\ parameters = NoParameters /\ loss = NoLoss
  /\ points = <<>> /\ lines = <<>> /\ polygon_coords = <<>> /\ polygon_fc = NoCollection
  /\ max_d_km = 0 /\ ts = 0 /\ written = <<>> /\ calls = <<>>

BatchIdle ==
  /\ available = TRUE /\ shape = "list" /\ dir = <<>> /\ prev = NoRun
  /\ pc = "idle" /\ exc = "" /\ dirCreated = FALSE
  /\ profiles = <<>> /\ index = 0 /\ parameters = NoParameters /\ loss = NoLoss
  /\ points = <<>> /\ lines = <<>> /\ polygon_coords = <<>> /\ polygon_fc = NoCollection
  /\ max_d_km = 0 /\ ts = 0 /\ written = <<>> /\ calls = <<>>

InitBatch ==
  /\ available \in BOOLEAN /\ shape \in {"list", "pair"} /\ dir \in ProfileSeqs /\ prev = NoRun
  /\ Fresh

env == <<available, shape, dir, prev>>
\* (Raise_swallowed: the exception noted and the run going on where it
\* was, for comparison.)
Raise_swallowed(e) == pc' = pc /\ exc' = e
Raise(e) == pc' = "raised" /\ exc' = e

\* `import Py1812.P1812` raises ImportError when the package is missing.
\* (ImportFails_swallowed: the error caught and dropped, for comparison.)
ImportFails_swallowed(av) == FALSE
ImportFails(av) == ~av

\* try: import Py1812.P1812 / except ImportError: raise ImportError(...)
Import ==
  /\ pc = "import"
  /\ IF ImportFails(available) THEN Raise("ImportError") ELSE pc' = "mkdir" /\ exc' = exc
  /\ UNCHANGED <<env, dirCreated, profiles, index, parameters, loss, points, lines,
                 polygon_coords, polygon_fc, max_d_km, ts, written, calls, cvars, vvars, gvars, pvars>>

\* output_dir.mkdir(parents=True, exist_ok=True)
Mkdir ==
  /\ pc = "mkdir"
  /\ \/ dirCreated' = TRUE /\ pc' = "load" /\ exc' = exc
     \/ dirCreated' = dirCreated /\ Raise("OSError")
  /\ UNCHANGED <<env, profiles, index, parameters, loss, points, lines,
                 polygon_coords, polygon_fc, max_d_km, ts, written, calls, cvars, vvars, gvars, pvars>>

\* profiles = load_profiles(profiles_dir); points = []; lines = [];
\* polygon_coords = []; and entering the loop.
LoadProfiles ==
  /\ pc = "load"
  /\ \/ /\ profiles' = load_profiles(dir)
        /\ pc' = IF load_profiles(dir) = <<>> THEN "polygon" ELSE "derive"
        /\ exc' = exc
     \/ profiles' = profiles /\ Raise("LoadError")
  /\ points' = <<>> /\ lines' = <<>> /\ polygon_coords' = <<>> /\ index' = 0
  /\ UNCHANGED <<env, dirCreated, parameters, loss, polygon_fc, max_d_km, ts, written,
                 calls, cvars, vvars, gvars, pvars>>

\* parameters = process_loss_parameters(profile)
Derive ==
  /\ pc = "derive"
  /\ \/ parameters' = process_loss_parameters(profiles[index + 1], shape) /\ pc' = "loss" /\ exc' = exc
     \/ parameters' = parameters /\ Raise("ParameterError")
  /\ calls' = Append(calls, Step("process_loss_parameters", index + 1, profiles[index + 1], 1))
  /\ UNCHANGED <<env, dirCreated, profiles, index, loss, points, lines,
                 polygon_coords, polygon_fc, max_d_km, ts, written, cvars, vvars, gvars, pvars>>

\* Lb, Ep = Py1812.P1812.bt_loss(*parameters): the library returns a pair or
\* raises.
Loss ==
  /\ pc = "loss"
  /\ \/ \E r \in LossResults : loss' = r /\ pc' = "emit" /\ exc' = exc
     \/ loss' = loss /\ Raise("LossError")
  /\ calls' = Append(calls, Step("bt_loss", index + 1, profiles[index + 1], 1))
  /\ UNCHANGED <<env, dirCreated, profiles, index, parameters, points, lines,
                 polygon_coords, polygon_fc, max_d_km, ts, written, cvars, vvars, gvars, pvars>>

\* The rest of the loop body: the transmitter on the first profile, the
\* receiver, the link, the ring coordinate; then the next profile, or
\* leaving the loop.  parameters[12] raises IndexError on a 2-tuple.
Emit ==
  /\ pc = "emit"
  /\ IF CanIndex(parameters, 13)
     THEN LET rx_number == index + 1
              rx_lon == Item(parameters, 13)
              rx_lat == Item(parameters, 11)
              withTx == IF IsFirst(index)
                        THEN Append(points, generate_geojson_point_transmitter(parameters))
                        ELSE points IN
          /\ points' = Append(withTx,
                              generate_geojson_point_receiver(parameters, rx_number, loss[1], loss[2]))
          /\ lines' = Append(lines, generate_geojson_line(parameters, index, loss[1], loss[2]))
          /\ polygon_coords' = Append(polygon_coords, <<rx_lon, rx_lat>>)
          /\ index' = index + 1
          /\ calls' = Append(calls, Step("features", index + 1, profiles[index + 1], 1))
          /\ pc' = IF index + 1 < Len(profiles) THEN "derive" ELSE "polygon"
          /\ exc' = exc
     ELSE /\ Raise("IndexError")
          /\ UNCHANGED <<points, lines, polygon_coords, index, calls>>
  /\ UNCHANGED <<env, dirCreated, profiles, parameters, loss, polygon_fc, max_d_km, ts,
                 written, cvars, vvars, gvars, pvars>>

\* polygon_fc = generate_geojson_polygon(polygon_coords); ts = time.strftime(...):
\* the clock reads 1 during the first run and 2 during the second.
Polygon ==
  /\ pc = "polygon"
  /\ polygon_fc' = generate_geojson_polygon(polygon_coords).fc
  /\ polygon_coords' = generate_geojson_polygon(polygon_coords).polygon_coords
  /\ ts' = IF prev.ran THEN 2 ELSE 1
  /\ pc' = "maxd"
  /\ UNCHANGED <<env, exc, dirCreated, profiles, index, parameters, loss, points, lines,
                 max_d_km, written, calls, cvars, vvars, gvars, pvars>>

\* The second loop over the profiles, for the file names.  p[2] raises
\* IndexError on a 2-tuple.
MaxDistanceLoop ==
  /\ pc = "maxd"
  /\ \/ /\ profiles = <<>> \/ shape = "list"
        /\ max_d_km' = MaxDistance(profiles, shape, 0)
        /\ calls' = calls \o SecondLoop(profiles, Len(profiles))
        /\ pc' = "points" /\ exc' = exc
     \/ /\ profiles # <<>> /\ shape # "list"
        /\ calls' = calls \o SecondLoop(profiles, 1)
        /\ max_d_km' = max_d_km /\ Raise("IndexError")
     \/ /\ \E j \in 1..Len(profiles) : calls' = calls \o SecondLoop(profiles, j)
        /\ max_d_km' = max_d_km /\ Raise("ParameterError")
  /\ UNCHANGED <<env, dirCreated, profiles, index, parameters, loss, points, lines,
                 polygon_coords, polygon_fc, ts, written, cvars, vvars, gvars, pvars>>

\* with open(<kind>_path, "w") as f: geojson.dump(<collection>, f)
WriteFile(kind, content, next) ==
  /\ pc = kind
  /\ \/ /\ written' = Append(written, [name |-> <<kind, d_tag(max_d_km), ts>>, content |-> content])
        /\ pc' = next /\ exc' = exc
     \/ written' = written /\ Raise("OSError")
  /\ UNCHANGED <<env, dirCreated, profiles, index, parameters, loss, points, lines,
                 polygon_coords, polygon_fc, max_d_km, ts, calls, cvars, vvars, gvars, pvars>>
WritePoints == WriteFile("points", FeatureCollection(points), "lines")
WriteLines == WriteFile("lines", FeatureCollection(lines), "polygon_file")
WritePolygon ==
  /\ pc = "polygon_file"
  /\ \/ /\ written' = Append(written, [name |-> <<"polygon", d_tag(max_d_km), ts>>, content |-> polygon_fc])
        /\ pc' = "done" /\ exc' = exc
     \/ written' = written /\ Raise("OSError")
  /\ UNCHANGED <<env, dirCreated, profiles, index, parameters, loss, points, lines,
                 polygon_coords, polygon_fc, max_d_km, ts, calls, cvars, vvars, gvars, pvars>>

\* The ring of a polygon collection.
Ring(fc) == fc.features[1].geometry.coordinates[1]

\* main() is called a second time, on the same profiles in another (or the
\* same) order; what the first run produced is kept for comparison.
Rerun ==
  /\ pc = "done" /\ ~prev.ran
  /\ prev' = [ran |-> TRUE, profiles |-> profiles, ring |-> Ring(polygon_fc)]
  /\ dir' \in Reorderings(dir)
  /\ pc' = "import" /\ exc' = "" /\ dirCreated' = FALSE
  /\ profiles' = <<>> /\ index' = 0 /\ parameters' = NoParameters /\ loss' = NoLoss
  /\ points' = <<>> /\ lines' = <<>> /\ polygon_coords' = <<>> /\ polygon_fc' = NoCollection
  /\ max_d_km' = 0 /\ ts' = 0 /\ written' = <<>> /\ calls' = <<>>
  /\ UNCHANGED <<available, shape, cvars, vvars, gvars, pvars>>

NextBatch ==
  \/ Import \/ Mkdir \/ LoadProfiles \/ Derive \/ Loss \/ Emit \/ Polygon
  \/ MaxDistanceLoop \/ WritePoints \/ WriteLines \/ WritePolygon \/ Rerun

\* ------------------------------------- geojson_builder functions on their own

\* Bounds of the exploration: vertices in a list handed to
\* generate_geojson_polygon, and calls made on the same arguments.
MaxVertices == 3
MaxCalls == 2

Vertices == {<<0, 0>>, <<1, 0>>, <<1, 1>>}
VertexSeqs == UNION {[1..n -> Vertices] : n \in 0..MaxVertices}
ParameterLists == {ParameterList(pr) : pr \in ProfilePool}
Numbers == {0, 1}

BuilderIdle == fn = "" /\ arg = <<>> /\ arg0 = <<>> /\ rest = <<>> /\ results = <<>>
InitBuilder ==
  /\ \/ fn = "polygon" /\ arg \in VertexSeqs /\ rest = <<>>
     \/ fn = "transmitter" /\ arg \in ParameterLists /\ rest = <<>>
     \/ /\ fn \in {"receiver", "line"} /\ arg \in ParameterLists
        /\ rest \in {<<n, r[1], r[2]>> : n \in Numbers, r \in LossResults}
  /\ arg0 = arg
  /\ results = <<>>

\* generate_geojson_point_transmitter(arg)
CallTransmitter ==
  /\ fn = "transmitter" /\ Len(results) < MaxCalls
  /\ results' = Append(results, generate_geojson_point_transmitter(arg))
  /\ UNCHANGED <<fn, arg, arg0, rest, cvars, vvars, bvars, pvars>>

\* generate_geojson_point_receiver(arg, number, Lb, Ep)
CallReceiver ==
  /\ fn = "receiver" /\ Len(results) < MaxCalls
  /\ results' = Append(results, generate_geojson_point_receiver(arg, rest[1], rest[2], rest[3]))
  /\ UNCHANGED <<fn, arg, arg0, rest, cvars, vvars, bvars, pvars>>

\* generate_geojson_line(arg, index, Lb, Ep)
CallLine ==
  /\ fn = "line" /\ Len(results) < MaxCalls
  /\ results' = Append(results, generate_geojson_line(arg, rest[1], rest[2], rest[3]))
  /\ UNCHANGED <<fn, arg, arg0, rest, cvars, vvars, bvars, pvars>>

\* generate_geojson_polygon(arg): polygon_coords.append works on the
\* caller's list.
CallPolygon ==
  /\ fn = "polygon" /\ Len(results) < MaxCalls
  /\ results' = Append(results, generate_geojson_polygon(arg).fc)
  /\ arg' = generate_geojson_polygon(arg).polygon_coords
  /\ UNCHANGED <<fn, arg0, rest, cvars, vvars, bvars, pvars>>

NextBuilder == CallTransmitter \/ CallReceiver \/ CallLine \/ CallPolygon

\* ------------------------------------------------------- point_generator

\* The floats of generate_phyllotaxis in fixed point.  scale is in
\* millimetres; radius, x and y are in micrometres; lat0, lon0 and the
\* returned coordinates are whole numbers of the spacing between the
\* coordinates that can be represented next to them, and an offset
\* (delta_lat, delta_lon) is in thousandths of that spacing.  The spacing is
\* a millionth of a degree here (2^-47 of a degree for a binary64 near 45),
\* so the scales below stand for scales that much smaller.
MetresPerDegree == 111320
Spacing == 1000

\* Bound of the exploration: num_points.
MaxPoints == 4

\* Rounding to nearest of a / b, b > 0.
RoundDiv(a, b) == IF 2 * (a % b) >= b THEN (a \div b) + 1 ELSE a \div b
\* math.sqrt of v / 10^6, in thousandths.
ISqrt(v) == CHOOSE r \in 0..1000 : r * r <= v /\ (r + 1) * (r + 1) > v
\* math.cos and math.sin of i * golden_angle, golden_angle =
\* 2 * math.pi * (1 - 1 / math.sqrt(5)) = 3.47326 rad, in thousandths, i = 0..7.
CosTurn == <<1000, -946, 788, -545, 242, 87, -407, 682>>
SinTurn == <<0, -326, 616, -839, 970, -996, 913, -731>>
\* math.cos(math.radians(lat0)) in thousandths, lat0 in whole degrees.
CosLat(deg) == CASE deg = 0 -> 1000 [] deg = 45 -> 707 [] deg = 60 -> 500

\* range(num_points)
\* (range_from_one: the indices from 1, for comparison.)
range_from_one(n) == [k \in 1..(n - 1) |-> k]
range(n) == [k \in 1..n |-> k - 1]

\* (i + 0.5), doubled; (i + 0.5) / num_points in millionths.
\* (Offset2_no_half: the index without the half, for comparison.)
Offset2_no_half(i) == 2 * i
Offset2(i) == 2 * i + 1
\* radius = scale * math.sqrt((i + 0.5) / num_points)
radius(i, n, scale) == scale * ISqrt((1000000 * Offset2(i)) \div (2 * n))
\* x = radius * math.cos(angle); y = radius * math.sin(angle)
cart_x(i, n, scale) == RoundDiv(radius(i, n, scale) * CosTurn[i + 1], 1000)
cart_y(i, n, scale) == RoundDiv(radius(i, n, scale) * SinTurn[i + 1], 1000)
\* delta_lat = y / 111320; delta_lon = x / (111320 * math.cos(math.radians(lat0)))
delta_lat(i, n, scale) == RoundDiv(cart_y(i, n, scale) * 1000, MetresPerDegree)
delta_lon(i, n, scale, deg) ==
  RoundDiv(cart_x(i, n, scale) * 1000, RoundDiv(MetresPerDegree * CosLat(deg), 1000))
\* lat0 + delta_lat, lon0 + delta_lon: the sum is rounded to a coordinate
\* that can be represented.
fl_add(a, d) == a + RoundDiv(d, Spacing)

Degrees(deg) == deg * 1000000
generate_phyllotaxis(deg, lon0, num_points, scale) ==
  [k \in 1..Len(range(num_points)) |->
     LET i == range(num_points)[k] IN
     <<fl_add(Degrees(deg), delta_lat(i, num_points, scale)),
       fl_add(lon0, delta_lon(i, num_points, scale, deg))>>]

\* The scales: far below the spacing of the coordinates, about it, and well
\* above it.
Scales == {1, 200, 2000}
Latitudes == {0, 45, 60}
Longitudes == {Degrees(10), Degrees(-13)}

GeneratorIdle == gen_in = <<>> /\ gen_out = <<>>
InitGenerator ==
  /\ gen_in \in {[lat0 |-> la, lon0 |-> lo, num_points |-> n, scale |-> sc] :
                   la \in Latitudes, lo \in Longitudes, n \in 0..MaxPoints, sc \in Scales}
  /\ gen_out = <<>>

\* generate_phyllotaxis(lat0, lon0, num_points, scale)
Generate ==
  /\ gen_in # <<>> /\ Len(gen_out) < MaxCalls
  /\ gen_out' = Append(gen_out, generate_phyllotaxis(gen_in.lat0, gen_in.lon0,
                                                     gen_in.num_points, gen_in.scale))
  /\ UNCHANGED <<gen_in, cvars, vvars, bvars, gvars>>

NextGenerator == Generate

\* ------------------------------------------------------- specifications

InitStore == InitConfig /\ ValidateIdle /\ BatchIdle /\ BuilderIdle /\ GeneratorIdle
InitTrees == InitConfig /\ InitValidate /\ BatchIdle /\ BuilderIdle /\ GeneratorIdle
InitRun == InitConfig /\ ValidateIdle /\ InitBatch /\ BuilderIdle /\ GeneratorIdle
SpecStore == InitStore /\ [][NextStore]_vars
SpecFiles == InitStore /\ [][NextFiles]_vars
SpecConfig == InitStore /\ [][NextConfig]_vars
SpecValidate == InitTrees /\ [][NextValidate]_vars
SpecBatch == InitRun /\ [][NextBatch]_vars
InitFeatures == InitConfig /\ ValidateIdle /\ BatchIdle /\ InitBuilder /\ GeneratorIdle
SpecBuilder == InitFeatures /\ [][NextBuilder]_vars
InitPoints == InitConfig /\ ValidateIdle /\ BatchIdle /\ BuilderIdle /\ InitGenerator
SpecGenerator == InitPoints /\ [][NextGenerator]_vars

\* ------------------------------------------------------------- properties

\* The validation invariant of the data model, stated on the tree itself.
ValidTree(config, sh) ==
  /\ {K("TRANSMITTER"), K("P1812"), K("RECEIVER_GENERATION"), K("LCM10_TO_CT"), K("CT_TO_R")}
       \subseteq Keys(config)
  /\ IsDict(Get(config, K("TRANSMITTER")))
  /\ {K("latitude"), K("longitude"), K("antenna_height_tx"), K("antenna_height_rx")}
       \subseteq Keys(Resolve(Get(config, K("TRANSMITTER")), sh))
  /\ IsDict(Get(config, K("P1812")))
  /\ LET p == Resolve(Get(config, K("P1812")), sh) IN
     /\ {K("frequency_ghz"), K("time_percentage"), K("polarization")} \subseteq Keys(p)
     /\ Get(p, K("frequency_ghz")).t = "num"
     /\ Get(p, K("frequency_ghz")).n >= 3000 /\ Get(p, K("frequency_ghz")).n <= 600000
     /\ Get(p, K("time_percentage")).t = "num"
     /\ Get(p, K("time_percentage")).n >= 100000 /\ Get(p, K("time_percentage")).n <= 5000000
     /\ Get(p, K("polarization")) \in {Num(100000), Num(200000)}

\* What store i returns to its readers.
View(i) == Flat(stores[i], shared, <<>>)
BuiltinView == Flat(DEFAULT_CONFIG, DefaultSections, <<>>)

\* C1: after any sequence of constructions and set calls, rejected ones
\* included, the tree every existing store reads from satisfies the
\* validation invariant.
C1_EveryStoreValid == \A i \in 1..Len(stores) : ValidTree(stores[i], shared)

\* C2: in every reachable state a construction from the built-in defaults
\* succeeds and the new store holds the original default values.
C2_DefaultsConstruct ==
  (last.op = "construct" /\ last.ov = NoneV) =>
     (last.out.exc = "" /\ View(last.st) = BuiltinView)

\* C3: what a store returns changes only through a set call on that store.
C3_OnlyOwnSetChanges ==
  [][\A i \in 1..Len(stores) :
        Flat(stores'[i], shared', <<>>) # Flat(stores[i], shared, <<>>)
          => (last'.op = "set" /\ last'.st = i)]_vars

\* C5: a rejected construction or set raises ConfigError, never another
\* error, and its message names the missing sections or keys or gives the
\* offending value.
C5_RejectedWithConfigError ==
  last.op \in {"construct", "set"} =>
     /\ last.out.exc \in {"", "ConfigError"}
     /\ last.out.exc = "ConfigError" => (last.out.names # <<>> \/ last.out.val # NoneV)

\* C6: a store constructed with an override holds the override's leaves and,
\* everywhere else, the built-in default values.
OverrideView(ov) == Flat(ov.m, DefaultSections, <<>>)
C6_MergeOntoBuiltinDefaults ==
  (last.op = "construct" /\ last.ov # NoneV /\ last.out.exc = "") =>
     View(last.st) =
        OverrideView(last.ov) \cup
          {e \in BuiltinView : \A o \in OverrideView(last.ov) : o[1] # e[1]}

\* C7: loading a saved file yields the tree that was saved, and the file is
\* written in the format its suffix selects on load.
FormatOfSuffix(x) == IF x = ".json" THEN "json" ELSE "yaml"
C7_SaveLoadRoundTrip ==
  /\ file.suffix # "" => file.text.format = FormatOfSuffix(file.suffix)
  /\ (last.op = "load" /\ last.out.what # "Config file not found") =>
        (last.out.exc = "" /\ View(last.st) = file.orig)

\* C8: a set on an absent section creates it with the one key; after a set
\* that returns, every (section, key) reads as its most recent set that
\* returned, and nothing but the given key has changed.
C8_LastWriterWins ==
  [][(last'.op = "set" /\ last'.out.exc = "") =>
       LET i == last'.st IN
       /\ ~Has(stores[i], last'.sec) =>
             Resolve(Get(stores'[i], last'.sec), shared') = <<(<<last'.key, last'.val>>)>>
       /\ \A t \in Keys(lastSet'[i]) :
             ConfigManager_get(stores'[i], shared', t[1], t[2]) = Get(lastSet'[i], t)
       /\ \A e \in Flat(stores'[i], shared', <<>>) :
             e[1] # <<last'.sec, last'.key>> /\ e[1] # <<last'.sec>> => e \in Flat(stores[i], shared, <<>>)
    ]_vars

\* C4: validate_config accepts a tree exactly when the five sections, the
\* four transmitter keys and the three model-parameter keys are present and
\* the three values are in range, bounds included; a frequency of 10 is
\* rejected citing the range, a polarization of 3 is rejected.
FullTree(f, p, pol) == ConfigTree(NoKey, NoKey, NoKey, f, p, pol)
C4_ValidateIff ==
  vout # NotRun =>
    /\ (vout.exc = "") <=> ValidTree(vconfig, DefaultSections)
    /\ \A f \in {Num(3000), Num(600000)}, p \in {Num(100000), Num(5000000)} :
          vconfig = FullTree(f, p, Num(100000)) => vout = Returned
    /\ \A p \in TimeInputs, pol \in PolarizationInputs :
          vconfig = FullTree(Num(1000000), p, pol) =>
             (vout.exc = "ValidationError" /\ vout.what = "Frequency outside valid range [0.03, 6]"
                /\ vout.val = Num(1000000))
    /\ vconfig = FullTree(Num(90000), Num(5000000), Num(300000)) =>
          (vout.exc = "ValidationError" /\ vout.val = Num(300000))
C4_Witness ==
  /\ vconfig = FullTree(Num(3000), Num(5000000), Num(200000))
  /\ vout = Returned

\* Where main() is once the loop is over, and once the polygon is built.
AfterLoop == pc \in {"polygon", "maxd", "points", "lines", "polygon_file", "done"}
AfterPolygon == pc \in {"maxd", "points", "lines", "polygon_file", "done"}
ReceiverCoords == [k \in 1..Len(profiles) |-> <<profiles[k].lam_r, profiles[k].phi_r>>]
Range(q) == {q[i] : i \in DOMAIN q}

\* C9: over N >= 1 profiles the points collection is the transmitter of the
\* first profile followed by the N receivers in processing order, the lines
\* collection has N links, the polygon collection has one polygon; the
\* files hold these collections.
C9_CollectionSizes ==
  (AfterLoop /\ Len(profiles) >= 1) =>
    LET N == Len(profiles) IN
    /\ Len(points) = N + 1
    /\ points[1].properties.name = <<"Transmitter">>
    /\ points[1].geometry.coordinates = <<profiles[1].lam_t, profiles[1].phi_t>>
    /\ points[1].properties.htg = profiles[1].htg
    /\ \A k \in 1..N :
         /\ points[k + 1].properties.name[1] = "Receiver_"
         /\ points[k + 1].geometry.coordinates = <<profiles[k].lam_r, profiles[k].phi_r>>
         /\ points[k + 1].properties.distance = Last(profiles[k].d)
    /\ Len(lines) = N
    /\ \A k \in 1..N : lines[k].geometry.type = "LineString"
    /\ AfterPolygon =>
         /\ Len(polygon_fc.features) = 1
         /\ polygon_fc.features[1].geometry.type = "Polygon"
    /\ pc = "done" =>
         /\ Len(written) = 3
         /\ written[1].content.features = points
         /\ Len(written[2].content.features) = N
         /\ Len(written[3].content.features) = 1
C9_Witness ==
  pc = "done" /\ Len(profiles) = 3 /\ Len(points) = 4 /\ Len(lines) = 3

\* C10 as claimed: the ring is the N receiver coordinates followed by a
\* repeat of the first, N + 1 coordinates in all, and a run over the same
\* profiles in another order gives the same members in another order.
C10_RingRepeatsFirst ==
  (AfterPolygon /\ Len(profiles) >= 1) =>
    LET N == Len(profiles)
        ring == Ring(polygon_fc) IN
    /\ ring = Append(ReceiverCoords, ReceiverCoords[1])
    /\ Len(ring) = N + 1
    /\ ring[1] = ring[N + 1]
    /\ (prev.ran /\ profiles # prev.profiles) =>
          (Range(ring) = Range(prev.ring) /\ ring # prev.ring)

\* C10 as amended: the ring is the N receiver coordinates in processing
\* order, followed by a repeat of the first only when the last receiver's
\* coordinate differs from the first's (N + 1 coordinates then, N
\* otherwise, so 1 for a single profile); its first and last coordinates
\* are equal; a run over the same profiles in another order gives the same
\* members, and another vertex order when the receivers' coordinates are
\* pairwise distinct.
C10_RingClosedWhenOpen ==
  (AfterPolygon /\ Len(profiles) >= 1) =>
    LET N == Len(profiles)
        c == ReceiverCoords
        ring == Ring(polygon_fc) IN
    /\ ring = IF c[1] # c[N] THEN Append(c, c[1]) ELSE c
    /\ Len(ring) = IF c[1] # c[N] THEN N + 1 ELSE N
    /\ ring[1] = ring[Len(ring)]
    /\ (prev.ran /\ profiles # prev.profiles) => Range(ring) = Range(prev.ring)
    /\ (prev.ran /\ profiles # prev.profiles /\ Injective(c)) => ring # prev.ring
C10_Witness ==
  /\ pc = "done" /\ prev.ran /\ Len(profiles) = 3 /\ profiles # prev.profiles
  /\ Injective(ReceiverCoords) /\ Len(Ring(polygon_fc)) = 4

\* C11: generate_geojson_polygon returns one feature whose ring is the list
\* it was given when that list is empty or its first and last vertices are
\* equal, and the list followed by its first vertex otherwise; a non-empty
\* ring has equal first and last vertices; an empty list gives an empty ring.
C11_RingOfPolygon ==
  (fn = "polygon" /\ results # <<>>) =>
    LET ring == Ring(results[1]) IN
    /\ Len(results[1].features) = 1
    /\ results[1].features[1].geometry.type = "Polygon"
    /\ arg0 = <<>> => ring = <<>>
    /\ (arg0 # <<>> /\ arg0[1] = arg0[Len(arg0)]) => ring = arg0
    /\ (arg0 # <<>> /\ arg0[1] # arg0[Len(arg0)]) => ring = Append(arg0, arg0[1])
    /\ ring # <<>> => ring[1] = ring[Len(ring)]
    /\ arg0 = << <<0, 0>>, <<1, 0>>, <<1, 1>> >>
         => ring = << <<0, 0>>, <<1, 0>>, <<1, 1>>, <<0, 0>> >>
C11_Witness ==
  /\ fn = "polygon" /\ results # <<>>
  /\ arg0 = << <<0, 0>>, <<1, 0>>, <<1, 1>> >> /\ Len(Ring(results[1])) = 4

\* C12: the four builder functions leave the list they were given as it
\* was, and a second call on the same arguments returns what the first did.
C12_ArgumentsUnchanged ==
  /\ arg = arg0
  /\ Len(results) = 2 => results[1] = results[2]

\* C13: the profile processed k-th yields the receiver named Receiver_k and
\* the link named Link_k with id k, both placed k-th among the receivers and
\* the links and both at that profile's receiver coordinates.
C13_NumberedInProcessingOrder ==
  (pc \in {"derive", "loss", "emit"} \/ AfterLoop) =>
    /\ Len(lines) = index
    /\ Len(points) = IF index = 0 THEN 0 ELSE index + 1
    /\ AfterLoop => index = Len(profiles)
    /\ \A k \in 1..index :
         LET at == <<profiles[k].lam_r, profiles[k].phi_r>> IN
         /\ points[k + 1].properties.name = <<"Receiver_", k>>
         /\ lines[k].properties.name = <<"Link_", k>>
         /\ lines[k].properties.rx_id = k
         /\ points[k + 1].geometry.coordinates = at
         /\ lines[k].geometry.coordinates[2] = at
C13_Witness ==
  /\ pc = "done" /\ Len(profiles) = 3
  /\ lines[3].properties.name = <<"Link_", 3>>
  /\ points[4].properties.name = <<"Receiver_", 3>>

\* The largest of the distances the receivers publish, 0 when there is none.
PublishedMax ==
  LET ds == {points[k + 1].properties.distance : k \in 1..Len(profiles)} IN
  IF ds = {} THEN 0 ELSE CHOOSE m \in ds : \A d \in ds : d <= m

\* C14: the files of a run are named points, lines and polygon with one tag
\* and one timestamp; the tag is the largest path distance of the run (the
\* last element of a profile's distances, which its receiver and link
\* publish) to one decimal place, with "p" for the point and "km" after it;
\* distances 2.0, 5.0, 3.0 give 5p0km.
C14_FileNames ==
  (pc \in {"points", "lines", "polygon_file", "done"}) =>
    /\ \A k \in 1..Len(profiles) :
         /\ points[k + 1].properties.distance = Last(profiles[k].d)
         /\ lines[k].properties.distance_km = Last(profiles[k].d)
    /\ \A i \in 1..Len(written) :
         LET tag == written[i].name[2] IN
         /\ written[i].name[1] = <<"points", "lines", "polygon">>[i]
         /\ written[i].name[2] = written[1].name[2]
         /\ written[i].name[3] = written[1].name[3]
         /\ tag[2] = "p" /\ tag[4] = "km" /\ tag[3] \in 0..9 /\ tag[1] >= 0
         /\ 10 * (10 * tag[1] + tag[3]) - PublishedMax \in -5..5
         /\ {Last(pr.d) : pr \in Range(profiles)} = {200, 500, 300} => tag = <<5, "p", 0, "km">>
    /\ pc = "done" => Len(written) = 3
C14_Witness ==
  /\ pc = "done" /\ [k \in 1..Len(profiles) |-> Last(profiles[k].d)] = <<200, 500, 300>>
  /\ written[3].name = <<"polygon", <<5, "p", 0, "km">>, ts>>

\* C15: without the Py1812 package the only step a run takes is the import,
\* which ends the run with ImportError: no directory is created, no profile
\* loaded, no collaborator called, no file written, and nothing follows.
C15_MissingCollaboratorIsFatal ==
  [][~available =>
       /\ pc = "import" /\ pc' = "raised" /\ exc' = "ImportError"
       /\ dirCreated' = FALSE /\ profiles' = <<>> /\ parameters' = NoParameters
       /\ calls' = <<>> /\ written' = <<>>]_vars
C15_Witness ==
  /\ ~available /\ pc = "raised" /\ exc = "ImportError"
  /\ dirCreated = FALSE /\ calls = <<>> /\ written = <<>>

\* C16: when a run has ended, by returning or by an exception at any step,
\* either the three files have been written or none has.
C16_AllOrNothing ==
  pc \in {"done", "raised"} => Len(written) \in {0, 3}

\* The positions in `calls` of the calls of op for the k-th profile.
CallsOf(op, k) == {i \in DOMAIN calls : calls[i].op = op /\ calls[i].k = k}

\* C19: in a run that returns, process_loss_parameters is called once per
\* profile and bt_loss once per profile, in load order, the features of a
\* profile being appended before the next profile's calls; the maximum
\* distance of the file name is the maximum of the distances published.
C19_OncePerProfile ==
  pc = "done" =>
    /\ \A k \in 1..Len(profiles) :
         /\ Cardinality(CallsOf("process_loss_parameters", k)) = 1
         /\ Cardinality(CallsOf("bt_loss", k)) = 1
         /\ \A i \in CallsOf("process_loss_parameters", k) \cup CallsOf("bt_loss", k) :
              calls[i].profile = profiles[k]
         /\ \A i \in CallsOf("features", k) :
              \A j \in CallsOf("process_loss_parameters", k + 1) \cup CallsOf("bt_loss", k + 1) :
                i < j
    /\ max_d_km = PublishedMax

\* C20: a run over no profile calls no collaborator and raises nothing of its
\* own; it produces empty points and lines collections and one polygon with
\* an empty ring, and writes the three files under the tag 0p0km.
C20_NoProfiles ==
  dir = <<>> =>
    /\ calls = <<>> /\ points = <<>> /\ lines = <<>>
    /\ pc = "raised" => exc \in {"ImportError", "OSError", "LoadError"}
    /\ AfterPolygon =>
         /\ Len(polygon_fc.features) = 1
         /\ polygon_fc.features[1].geometry.type = "Polygon"
         /\ Ring(polygon_fc) = <<>>
    /\ \A i \in 1..Len(written) : written[i].name[2] = <<0, "p", 0, "km">>
    /\ pc = "done" =>
         /\ exc = ""
         /\ [i \in 1..3 |-> written[i].name[1]] = <<"points", "lines", "polygon">>
         /\ written[1].content = FeatureCollection(<<>>)
         /\ written[2].content = FeatureCollection(<<>>)
         /\ written[3].content = polygon_fc
C20_Witness ==
  dir = <<>> /\ pc = "done" /\ Len(written) = 3 /\ Ring(written[3].content) = <<>>

\* C17: generate_phyllotaxis returns num_points (lat, lon) pairs, the k-th
\* of them the point of i = k - 1; none for num_points = 0; a second call
\* with the same inputs returns the same sequence.
C17_ExactlyNPoints ==
  \A c \in 1..Len(gen_out) :
    /\ Len(gen_out[c]) = gen_in.num_points
    /\ gen_in.num_points = 0 => gen_out[c] = <<>>
    /\ \A k \in 1..Len(gen_out[c]) :
         /\ Len(gen_out[c][k]) = 2
         /\ gen_out[c][k][1] =
              fl_add(Degrees(gen_in.lat0), delta_lat(k - 1, gen_in.num_points, gen_in.scale))
    /\ gen_out[c] = gen_out[1]
C17_Witness ==
  /\ Len(gen_out) = 2 /\ gen_in.num_points = 4 /\ gen_in.scale = 2000
  /\ Len(gen_out[2]) = 4

\* The inputs of the call and the locals of its i-th iteration.
Abs(a) == IF a >= 0 THEN a ELSE -a
Origin == <<Degrees(gen_in.lat0), gen_in.lon0>>
Radius(i) == radius(i, gen_in.num_points, gen_in.scale)
DeltaLat(i) == delta_lat(i, gen_in.num_points, gen_in.scale)
DeltaLon(i) == delta_lon(i, gen_in.num_points, gen_in.scale, gen_in.lat0)
\* radius / scale squared is (2i + 1) / (2n), to the precision of the root;
\* the radius is above 0, below scale, and grows with i.
RadiusAsClaimed(i) ==
  LET n == gen_in.num_points
      f == Radius(i) \div gen_in.scale IN
  /\ f * f * 2 * n <= 1000000 * (2 * i + 1)
  /\ 1000000 * (2 * i + 1) < (f + 1) * (f + 1) * 2 * n + 2 * n
  /\ 0 < Radius(i) /\ Radius(i) < 1000 * gen_in.scale
  /\ i + 1 < n => Radius(i) < Radius(i + 1)

\* C18 as claimed: for num_points >= 1 and every scale > 0 the squared
\* radius of the i-th point is scale^2 (2i + 1) / (2 num_points), growing
\* with i, above 0 and below scale^2; no returned point is the origin and no
\* two returned points are equal.
C18_OffsetsDistinct ==
  \A c \in 1..Len(gen_out) :
    \A k \in 1..Len(gen_out[c]) :
      /\ RadiusAsClaimed(k - 1)
      /\ gen_out[c][k] # Origin
      /\ \A j \in 1..Len(gen_out[c]) : j # k => gen_out[c][j] # gen_out[c][k]

\* C18 as amended: the radius is as claimed; a returned point is off the
\* origin when one of its offsets is at least the spacing of the
\* coordinates that can be represented there, and two returned points
\* differ when their latitude or their longitude offsets differ by more than
\* that spacing.
C18_OffsetsDistinctAboveSpacing ==
  \A c \in 1..Len(gen_out) :
    \A k \in 1..Len(gen_out[c]) :
      /\ RadiusAsClaimed(k - 1)
      /\ (Abs(DeltaLat(k - 1)) >= Spacing \/ Abs(DeltaLon(k - 1)) >= Spacing)
           => gen_out[c][k] # Origin
      /\ \A j \in 1..Len(gen_out[c]) :
           (\/ Abs(DeltaLat(j - 1) - DeltaLat(k - 1)) > Spacing
            \/ Abs(DeltaLon(j - 1) - DeltaLon(k - 1)) > Spacing)
             => gen_out[c][j] # gen_out[c][k]
C18_Witness ==
  /\ Len(gen_out) = 1 /\ gen_in.num_points = 4 /\ gen_in.scale = 2000
  /\ \A k \in 1..4 :
       /\ Abs(DeltaLat(k - 1)) >= Spacing \/ Abs(DeltaLon(k - 1)) >= Spacing
       /\ gen_out[1][k] # Origin
  /\ Abs(DeltaLat(1) - DeltaLat(2)) > Spacing /\ gen_out[1][2] # gen_out[1][3]

\* C21: a file is written only once every profile has been processed, and
\* the files are written in the order points, lines, polygon; an exception
\* of process_loss_parameters or bt_loss ends the run at once with that
\* exception and no file, and a run that has ended takes no further step.
C21_NoWriteBeforeAllProcessed ==
  [][/\ pc # "raised"
     /\ (written' # written /\ pc # "done") =>
          /\ index = Len(profiles)
          /\ \A k \in 1..Len(profiles) : CallsOf("features", k) # {}
          /\ Len(written') = Len(written) + 1
          /\ written'[Len(written')].name[1] = <<"points", "lines", "polygon">>[Len(written')]
          /\ \A i \in 1..Len(written) : written'[i] = written[i]
     /\ exc' # exc =>
          /\ exc = "" /\ pc' = "raised"
          /\ exc' \in {"ParameterError", "LossError"} =>
               /\ written' = <<>> /\ index' = index
               /\ calls'[Len(calls')].op =
                    IF exc' = "LossError" THEN "bt_loss" ELSE "process_loss_parameters"
               /\ \A i \in 1..Len(calls') :
                    calls'[i].loop = calls'[Len(calls')].loop => calls'[i].k <= calls'[Len(calls')].k
    ]_vars
C21_Witness ==
  /\ pc = "raised" /\ exc = "LossError" /\ Len(profiles) = 3
  /\ calls[Len(calls)].k = 2 /\ written = <<>> /\ Len(lines) = 1

\* C22: what process_loss_parameters returns is what bt_loss is called with
\* and what the features are built from; when it returns the list together
\* with the transmitter id, bt_loss still receives the parameters of the
\* profile, the run builds its features, and for every profile the receiver,
\* the far end of the link and the ring vertex are the profile's receiver
\* (lon, lat).
C22_PairShapeFeedsFeatures ==
  /\ \A k \in 1..Len(lines) :
       LET at == <<profiles[k].lam_r, profiles[k].phi_r>> IN
       /\ points[k + 1].geometry.coordinates = at
       /\ lines[k].geometry.coordinates[2] = at
       /\ polygon_coords[k] = at
  /\ shape = "pair" =>
       /\ pc \in {"loss", "emit"} => parameters = ParameterList(profiles[index + 1])
       /\ exc # "IndexError"
       /\ AfterLoop => Len(lines) = Len(profiles)

====
